---- MODULE Spec2Model ----
(***************************************************************************)
(* A model of CellProfiler's MeasureObjectIntensity.run                    *)
(* (pyCellProfiler/cellprofiler/modules/measureobjectintensity.py).        *)
(*                                                                         *)
(* One image and one object set are measured: the body of the two nested   *)
(* loops of run.  Arrays are flattened row-major and indexed from 1.       *)
(*                                                                         *)
(* Numbers.  Pixel intensities are fixed-point: the integer p stored in    *)
(* pixel_data stands for the real intensity p / Unit.  Every computed      *)
(* float is an exact extended rational <<n, d>> in lowest terms with       *)
(* d >= 0: d > 0 is the rational n/d, <<0,0>> is NaN, <<1,0>> is +inf and  *)
(* <<-1,0>> is -inf (the values numpy's float division produces on a zero  *)
(* divisor).  numpy.sqrt(q) is the surd [radicand |-> q]: the non-negative *)
(* number whose square is q, so two surds are equal exactly when their     *)
(* radicands are, and a surd is 0 exactly when its radicand is 0.          *)
(*                                                                         *)
(* Collaborators.  scipy.ndimage's sum, mean, standard_deviation, minimum  *)
(* and maximum over labels are modelled at run's call sites; a label       *)
(* without pixels gets 0 from each of them and the standard deviation is   *)
(* the population one.  cellprofiler.cpmath.outline.outline is modelled    *)
(* from its description: a pixel keeps its label when it is on the image   *)
(* border or has an 8-neighbour with another label.                        *)
(***************************************************************************)
EXTENDS Integers, Sequences, FiniteSets, TLC

\* ------------------------------------------------------------------ bounds
\* Fixed-point resolution: the integer Unit stands for the intensity 1.0.
Unit == 2
\* Largest fixed-point intensity of a generated image (MaxIntensity / Unit).
MaxIntensity == 2
\* Largest label of a generated label matrix.
MaxLabel == 2
\* Largest number of masked-out pixels of a generated mask.
MaxMaskedOut == 1

\* The shapes (rows, columns) of the generated images.
Shapes == {<<2, 2>>, <<1, 3>>}

\* ----------------------------------------------------------------- state
VARIABLES
  shape,         \* image.pixel_data.shape: <<rows, columns>>
  pixel_data,    \* image.pixel_data, flattened, fixed-point
  has_mask,      \* image.has_mask
  mask,          \* image.mask, flattened
  segmented,     \* objects.segmented (the label matrix), flattened
  measurements,  \* workspace.measurements: feature name -> sequence
  pc             \* "ready" before run, "done" after it, "raised" on an exception

\* One measured image and object set: the body of run's two loops.
pairVars == <<shape, pixel_data, has_mask, mask, segmented, measurements, pc>>

\* The module's settings and the workspace of a whole run.
VARIABLES
  image_names,                 \* self.image_names: the values of the settings
  image_names_remove_buttons,  \* the index each "Remove" button is bound to
  object_names,                \* self.object_names: the values of the settings
  object_name_remove_buttons,  \* the index each "Remove" button is bound to
  image_divider,               \* self.image_divider: the value of the setting
  call,          \* the call the module received last: [op, args]
  image_set,     \* workspace.image_set: image name -> image
  object_set,    \* workspace.object_set: object name -> label matrix
  store,         \* the add_measurement calls workspace.measurements received
  module_pc      \* "ready", "done", or the exception the last call raised

settingVars == <<image_names, image_names_remove_buttons,
                 object_names, object_name_remove_buttons, image_divider>>

workspaceVars == <<image_set, object_set, store>>

moduleVars == <<settingVars, workspaceVars, call, module_pc>>

\* The settings of a GrayToColor module (modules/graytocolor.py); it shares
\* the workspace's image_set.
VARIABLES
  scheme_choice,       \* self.scheme_choice
  color_image_names,   \* colour -> the value of self.<colour>_image_name
  adjustment_factors,  \* colour -> the value of self.<colour>_adjustment_factor
  stack_channels       \* the image names of self.stack_channels

grayToColorVars == <<scheme_choice, color_image_names, adjustment_factors,
                     stack_channels>>

\* A LoadText module (modules/loadtext.py) and the CSV file it reads.
VARIABLES
  csv_file,       \* the data rows of the CSV file, after the header
  wants_rows,     \* self.wants_rows.value
  row_range,      \* self.row_range: <<min, max>>
  legacy_fields   \* image_set_list.legacy_fields[self.legacy_field_key]

loadTextVars == <<csv_file, wants_rows, row_range, legacy_fields>>

\* What the module's last measurement query returned.
VARIABLES
  returned       \* [type, value]: a list, or None

queryVars == <<returned>>

otherVars == <<grayToColorVars, loadTextVars, queryVars>>

vars == <<pairVars, moduleVars, otherVars>>

\* ------------------------------------------------------- feature names
INTEGRATED_INTENSITY == "IntegratedIntensity"
MEAN_INTENSITY == "MeanIntensity"
STD_INTENSITY == "StdIntensity"
MIN_INTENSITY == "MinIntensity"
MAX_INTENSITY == "MaxIntensity"
INTEGRATED_INTENSITY_EDGE == "IntegratedIntensityEdge"
MEAN_INTENSITY_EDGE == "MeanIntensityEdge"
STD_INTENSITY_EDGE == "StdIntensityEdge"
MIN_INTENSITY_EDGE == "MinIntensityEdge"
MAX_INTENSITY_EDGE == "MaxIntensityEdge"
MASS_DISPLACEMENT == "MassDisplacement"
LOWER_QUARTILE_INTENSITY == "LowerQuartileIntensity"
MEDIAN_INTENSITY == "MedianIntensity"
UPPER_QUARTILE_INTENSITY == "UpperQuartileIntensity"

ALL_MEASUREMENTS ==
  << INTEGRATED_INTENSITY, MEAN_INTENSITY, STD_INTENSITY,
     MIN_INTENSITY, MAX_INTENSITY, INTEGRATED_INTENSITY_EDGE,
     MEAN_INTENSITY_EDGE, STD_INTENSITY_EDGE,
     MIN_INTENSITY_EDGE, MAX_INTENSITY_EDGE,
     MASS_DISPLACEMENT, LOWER_QUARTILE_INTENSITY,
     MEDIAN_INTENSITY, UPPER_QUARTILE_INTENSITY >>

\* --------------------------------------------------- extended rationals
Abs(n) == IF n < 0 THEN -n ELSE n

Sign(n) == IF n > 0 THEN 1 ELSE IF n < 0 THEN -1 ELSE 0

RECURSIVE GCD(_, _)
GCD(a, b) == IF b = 0 THEN a ELSE GCD(b, a % b)

\* The float n/d for integers n and d >= 0, in lowest terms.
Rat(n, d) ==
  IF d = 0 THEN <<Sign(n), 0>>
  ELSE LET g == GCD(Abs(n), d) IN <<n \div g, d \div g>>

NaN == <<0, 0>>

IsNaN(a) == a = NaN

IsInf(a) == a[2] = 0 /\ a[1] # 0

IsFinite(a) == a[2] > 0

\* a / b for finite floats a, b (a zero divisor is +0.0: sums of pixels).
fdiv(a, b) ==
  IF IsNaN(a) \/ IsNaN(b) THEN NaN
  ELSE IF b[1] = 0 /\ b[2] > 0 THEN <<Sign(a[1]), 0>>
  ELSE IF IsInf(a) /\ IsInf(b) THEN NaN
  ELSE IF IsInf(a) THEN <<a[1] * Sign(b[1]), 0>>
  ELSE IF IsInf(b) THEN <<0, 1>>
  ELSE Rat(a[1] * b[2] * Sign(b[1]), a[2] * Abs(b[1]))

fmul(a, b) ==
  IF IsNaN(a) \/ IsNaN(b) THEN NaN
  ELSE IF IsInf(a) \/ IsInf(b)
       THEN <<Sign(a[1]) * Sign(b[1]), 0>>   \* inf * 0 is NaN = <<0,0>>
  ELSE Rat(a[1] * b[1], a[2] * b[2])

fadd(a, b) ==
  IF IsNaN(a) \/ IsNaN(b) THEN NaN
  ELSE IF IsInf(a) /\ IsInf(b) THEN (IF a = b THEN a ELSE NaN)
  ELSE IF IsInf(a) THEN a
  ELSE IF IsInf(b) THEN b
  ELSE Rat(a[1] * b[2] + b[1] * a[2], a[2] * b[2])

fneg(a) == <<-a[1], a[2]>>

fsub(a, b) == fadd(a, fneg(b))

\* a <= b for floats; every comparison with NaN is false.
fle(a, b) ==
  IF IsNaN(a) \/ IsNaN(b) THEN FALSE
  ELSE IF IsInf(a) THEN (a[1] < 0 \/ a = b)
  ELSE IF IsInf(b) THEN b[1] > 0
  ELSE a[1] * b[2] <= b[1] * a[2]

\* numpy.sqrt: the non-negative number whose square is q.
sqrt(q) == [radicand |-> q]

\* The real intensity of the fixed-point value p.
Intensity(p) == Rat(p, Unit)

\* ------------------------------------------------------------ the inputs
\* The inputs of one pass of run's loops: an image (pixel data, mask) and
\* the label matrix of an object set.
Input(shp, pix, hm, msk, seg) ==
  [shape |-> shp, pixel_data |-> pix, has_mask |-> hm, mask |-> msk,
   segmented |-> seg]

NPixels(in) == in.shape[1] * in.shape[2]

\* a[image.mask] on a flattened array: the positions the mask selects, in
\* row-major order (every position when the image has no mask).
Selected(in) ==
  LET all == [k \in 1..NPixels(in) |-> k]
  IN IF in.has_mask THEN SelectSeq(all, LAMBDA k : in.mask[k]) ELSE all

\* img after `img = img[image.mask]`: the intensities run reduces over.
img(in) ==
  LET sel == Selected(in) IN [j \in 1..Len(sel) |-> in.pixel_data[sel[j]]]

\* masked_image: a copy with `masked_image[image.mask] = 0`, or img itself.
masked_image(in) ==
  [k \in 1..NPixels(in) |->
     IF in.has_mask /\ in.mask[k] THEN 0 ELSE in.pixel_data[k]]

\* labels after `labels = labels[image.mask]`.
labels(in) ==
  LET sel == Selected(in) IN [j \in 1..Len(sel) |-> in.segmented[sel[j]]]

\* masked_labels: a copy with `masked_labels[image.mask] = 0`, or labels.
masked_labels(in) ==
  [k \in 1..NPixels(in) |->
     IF in.has_mask /\ in.mask[k] THEN 0 ELSE in.segmented[k]]

RECURSIVE MaxTo(_, _)
MaxTo(a, n) ==
  IF n = 1 THEN a[1]
  ELSE LET m == MaxTo(a, n - 1) IN IF a[n] > m THEN a[n] ELSE m

\* Mutant of nobjects: the + 1 that counts the background is left out.
nobjects_without_background(in) == MaxTo(in.segmented, NPixels(in))

\* nobjects = np.max(labels)+1, taken from the unmasked label matrix.
nobjects(in) == MaxTo(in.segmented, NPixels(in)) + 1

\* The number of regions N: the measurements keep positions 1..N.
NRegions(in) == nobjects(in) - 1

\* ---------------------------------------------------------------- outline
Row(shp, k) == (k - 1) \div shp[2]

Col(shp, k) == (k - 1) % shp[2]

\* The 8-connected neighbours of pixel k inside the image.
Neighbours(shp, k) ==
  {n \in 1..(shp[1] * shp[2]) :
     /\ n # k
     /\ Abs(Row(shp, n) - Row(shp, k)) <= 1
     /\ Abs(Col(shp, n) - Col(shp, k)) <= 1}

OnBorder(shp, k) ==
  \/ Row(shp, k) = 0 \/ Row(shp, k) = shp[1] - 1
  \/ Col(shp, k) = 0 \/ Col(shp, k) = shp[2] - 1

\* cpmo.outline(labels): a pixel keeps its label when it lies on the image
\* border or has a neighbour with another label, and is 0 elsewhere.
outline(shp, seg) ==
  [k \in 1..(shp[1] * shp[2]) |->
     IF OnBorder(shp, k) \/ \E n \in Neighbours(shp, k) : seg[n] # seg[k]
     THEN seg[k] ELSE 0]

\* Mutant of outlines: the selection is taken from masked_outlines, the
\* copy that `masked_outlines[image.mask] = 0` has blanked.
outlines_of_masked_outlines(in) ==
  LET o == outline(in.shape, in.segmented)
      sel == Selected(in)
  IN [j \in 1..Len(sel) |->
        IF in.has_mask /\ in.mask[sel[j]] THEN 0 ELSE o[sel[j]]]

\* outlines after `outlines = outlines[image.mask]`.
outlines(in) ==
  LET o == outline(in.shape, in.segmented)
      sel == Selected(in)
  IN [j \in 1..Len(sel) |-> o[sel[j]]]

\* -------------------------------------------------------- grouped reducers
\* The positions of the label array lab that carry label i.
Members(lab, i) == {j \in DOMAIN lab : lab[j] = i}

RECURSIVE SumOver(_, _)
SumOver(values, S) ==
  IF S = {} THEN 0
  ELSE LET j == CHOOSE x \in S : TRUE
       IN values[j] + SumOver(values, S \ {j})

\* nd.sum(values, lab, range(nobjects))[i], as an integer.
LabelSum(values, lab, i) == SumOver(values, Members(lab, i))

LabelCount(lab, i) == Cardinality(Members(lab, i))

\* nd.sum of fixed-point intensities, as a float.
nd_sum(values, lab, i) == Rat(LabelSum(values, lab, i), Unit)

\* Mutant of nd_mean: the sum is divided by the size of the whole array.
nd_mean_over_all(values, lab, i, scale) ==
  LET n == LabelCount(lab, i)
  IN IF n = 0 THEN <<0, 1>>
     ELSE Rat(LabelSum(values, lab, i), Len(lab) * scale)

\* nd.mean(values, lab, range(nobjects))[i] with values scaled by `scale`:
\* the sum over the count, and 0 for a label without pixels.
nd_mean(values, lab, i, scale) ==
  LET n == LabelCount(lab, i)
  IN IF n = 0 THEN <<0, 1>> ELSE Rat(LabelSum(values, lab, i), n * scale)

\* nd.standard_deviation(values, lab, range(nobjects))[i]: the square root
\* of the population variance, and 0 for a label without pixels.
nd_standard_deviation(values, lab, i) ==
  LET n == LabelCount(lab, i)
      s == LabelSum(values, lab, i)
      sq == SumOver([j \in DOMAIN values |-> values[j] * values[j]],
                    Members(lab, i))
  IN IF n = 0 THEN sqrt(<<0, 1>>)
     ELSE sqrt(Rat(n * sq - s * s, n * n * Unit * Unit))

\* nd.minimum(values, lab, range(nobjects))[i], 0 for a label without pixels.
nd_minimum(values, lab, i) ==
  LET S == Members(lab, i)
  IN IF S = {} THEN <<0, 1>>
     ELSE Intensity(CHOOSE v \in {values[j] : j \in S} :
                      \A j \in S : v <= values[j])

\* nd.maximum(values, lab, range(nobjects))[i], 0 for a label without pixels.
nd_maximum(values, lab, i) ==
  LET S == Members(lab, i)
  IN IF S = {} THEN <<0, 1>>
     ELSE Intensity(CHOOSE v \in {values[j] : j \in S} :
                      \A j \in S : v >= values[j])

\* ------------------------------------------------------ whole-region and
\* edge statistics, indexed by label 0..nobjects-1 (label 0 is cut later)
integrated_intensity(in) ==
  [i \in 0..(nobjects(in) - 1) |-> nd_sum(img(in), labels(in), i)]

integrated_intensity_edge(in) ==
  [i \in 0..(nobjects(in) - 1) |-> nd_sum(img(in), outlines(in), i)]

mean_intensity(in) ==
  [i \in 0..(nobjects(in) - 1) |-> nd_mean(img(in), labels(in), i, Unit)]

mean_intensity_edge(in) ==
  [i \in 0..(nobjects(in) - 1) |-> nd_mean(img(in), outlines(in), i, Unit)]

std_intensity(in) ==
  [i \in 0..(nobjects(in) - 1) |->
     nd_standard_deviation(img(in), labels(in), i)]

std_intensity_edge(in) ==
  [i \in 0..(nobjects(in) - 1) |->
     nd_standard_deviation(img(in), outlines(in), i)]

min_intensity(in) ==
  [i \in 0..(nobjects(in) - 1) |-> nd_minimum(img(in), labels(in), i)]

min_intensity_edge(in) ==
  [i \in 0..(nobjects(in) - 1) |-> nd_minimum(img(in), outlines(in), i)]

max_intensity(in) ==
  [i \in 0..(nobjects(in) - 1) |-> nd_maximum(img(in), labels(in), i)]

max_intensity_edge(in) ==
  [i \in 0..(nobjects(in) - 1) |-> nd_maximum(img(in), outlines(in), i)]

\* ------------------------------------------------------ mass displacement
\* np.meshgrid(range(shape[1]), range(shape[0])): the column and the row of
\* every pixel.
mesh_x(in) == [k \in 1..NPixels(in) |-> Col(in.shape, k)]

mesh_y(in) == [k \in 1..NPixels(in) |-> Row(in.shape, k)]

\* cm_x, cm_y: the mean column and row of each label of masked_labels.
cm_x(in) ==
  [i \in 0..(nobjects(in) - 1) |-> nd_mean(mesh_x(in), masked_labels(in), i, 1)]

cm_y(in) ==
  [i \in 0..(nobjects(in) - 1) |-> nd_mean(mesh_y(in), masked_labels(in), i, 1)]

\* i_x, i_y: the sums of mesh * masked_image over each label of masked_labels.
i_x(in) ==
  LET mx == mesh_x(in)
      mi == masked_image(in)
  IN [i \in 0..(nobjects(in) - 1) |->
        nd_sum([k \in 1..NPixels(in) |-> mx[k] * mi[k]], masked_labels(in), i)]

i_y(in) ==
  LET my == mesh_y(in)
      mi == masked_image(in)
  IN [i \in 0..(nobjects(in) - 1) |->
        nd_sum([k \in 1..NPixels(in) |-> my[k] * mi[k]], masked_labels(in), i)]

\* sqrt(diff_x * diff_x + diff_y * diff_y), for every label.
mass_displacement_all(in) ==
  LET ii == integrated_intensity(in)
      cx == cm_x(in)
      cy == cm_y(in)
      ix == i_x(in)
      iy == i_y(in)
  IN [i \in 0..(nobjects(in) - 1) |->
        LET cmi_x == fdiv(ix[i], ii[i])
            cmi_y == fdiv(iy[i], ii[i])
            diff_x == fsub(cx[i], cmi_x)
            diff_y == fsub(cy[i], cmi_y)
        IN sqrt(fadd(fmul(diff_x, diff_x), fmul(diff_y, diff_y)))]

\* --------------------------------------------------------------- quantiles
\* Mutant of areas: the pixels are counted in masked_labels.
areas_of_masked_labels(in) ==
  [i \in 0..(nobjects(in) - 1) |-> LabelCount(masked_labels(in), i)]

\* areas: the number of selected pixels of every label.
areas(in) == [i \in 0..(nobjects(in) - 1) |-> LabelCount(labels(in), i)]

RECURSIVE CumSum(_, _)
CumSum(a, k) == IF k = 0 THEN a[0] ELSE CumSum(a, k - 1) + a[k]

\* indices = np.cumsum(areas)[:-1]; the entry of region r is at r - 1.
indices(in) == [r \in 1..NRegions(in) |-> CumSum(areas(in), r - 1)]

\* Mutant of ordered_image: the sort is left out.
ordered_image_unsorted(in) ==
  LET im == img(in)
      lab == labels(in)
  IN [k \in 0..(Len(im) - 1) |-> lab[k + 1] * Unit + im[k + 1]]

\* ordered_image: label + intensity of every selected pixel, sorted; the
\* entries are fixed-point (label * Unit + p) and indexed from 0.
ordered_image(in) ==
  LET im == img(in)
      lab == labels(in)
      keys == [j \in 1..Len(im) |-> lab[j] * Unit + im[j]]
      sorted == SortSeq(keys, LAMBDA a, b : a < b)
  IN [k \in 0..(Len(im) - 1) |-> sorted[k + 1]]

\* (indices + areas[1:]/4 + .5).astype(int).  nd.sum returns floats, so
\* areas/4 is a true division and astype(int) cuts the fraction of
\* indices + areas/4 + 1/2 (round half up of the rank, then 0-based).
indices_25(in) ==
  [r \in 1..NRegions(in) |->
     (4 * indices(in)[r] + areas(in)[r] + 2) \div 4]

\* (indices + areas[1:]/2 + .5).astype(int)
indices_50(in) ==
  [r \in 1..NRegions(in) |->
     (2 * indices(in)[r] + areas(in)[r] + 1) \div 2]

\* (indices + 3*areas[1:]/4 + .5).astype(int)
indices_75(in) ==
  [r \in 1..NRegions(in) |->
     (4 * indices(in)[r] + 3 * areas(in)[r] + 2) \div 4]

\* ordered_image[idx] raises IndexError when an index is out of bounds.
IndexError(in) ==
  /\ nobjects(in) > 1
  /\ \E r \in 1..NRegions(in) :
       \E idx \in {indices_25(in)[r], indices_50(in)[r], indices_75(in)[r]} :
         idx >= Len(img(in))

\* ordered_image[idx] - range(1, nobjects)
Quantile(in, idx) ==
  LET oi == ordered_image(in)
  IN [r \in 1..NRegions(in) |-> Rat(oi[idx[r]] - r * Unit, Unit)]

\* The three quantile sequences: read out when nobjects > 1, else empty.
lower_quartile_intensity(in) ==
  IF nobjects(in) > 1 THEN Quantile(in, indices_25(in)) ELSE <<>>

median_intensity(in) ==
  IF nobjects(in) > 1 THEN Quantile(in, indices_50(in)) ELSE <<>>

upper_quartile_intensity(in) ==
  IF nobjects(in) > 1 THEN Quantile(in, indices_75(in)) ELSE <<>>

\* ----------------------------------------------------------------- emitter
\* a[1:] when nobjects > 1, and np.zeros((0,)) otherwise.
Tail1(in, a) ==
  IF nobjects(in) > 1 THEN [r \in 1..NRegions(in) |-> a[r]] ELSE <<>>

\* mass_displacement: the distances of labels 1..N, or np.zeros((0,)).
mass_displacement(in) ==
  IF nobjects(in) > 1
  THEN [r \in 1..NRegions(in) |-> mass_displacement_all(in)[r]]
  ELSE <<>>

\* The fourteen (feature_name, measurement) pairs run hands to
\* add_measurement, as a function of the feature name.
Measure(in) ==
  (INTEGRATED_INTENSITY :> Tail1(in, integrated_intensity(in)))
  @@ (MEAN_INTENSITY :> Tail1(in, mean_intensity(in)))
  @@ (STD_INTENSITY :> Tail1(in, std_intensity(in)))
  @@ (MIN_INTENSITY :> Tail1(in, min_intensity(in)))
  @@ (MAX_INTENSITY :> Tail1(in, max_intensity(in)))
  @@ (INTEGRATED_INTENSITY_EDGE :> Tail1(in, integrated_intensity_edge(in)))
  @@ (MEAN_INTENSITY_EDGE :> Tail1(in, mean_intensity_edge(in)))
  @@ (STD_INTENSITY_EDGE :> Tail1(in, std_intensity_edge(in)))
  @@ (MIN_INTENSITY_EDGE :> Tail1(in, min_intensity_edge(in)))
  @@ (MAX_INTENSITY_EDGE :> Tail1(in, max_intensity_edge(in)))
  @@ (MASS_DISPLACEMENT :> mass_displacement(in))
  @@ (LOWER_QUARTILE_INTENSITY :> lower_quartile_intensity(in))
  @@ (MEDIAN_INTENSITY :> median_intensity(in))
  @@ (UPPER_QUARTILE_INTENSITY :> upper_quartile_intensity(in))

\* The outcome of one pass: the exception, or the measurements added.
Outcome(in) ==
  IF IndexError(in) THEN [pc |-> "raised", measurements |-> <<>>]
  ELSE [pc |-> "done", measurements |-> Measure(in)]

\* ------------------------------------------------- the arrays run writes
\* A heap maps the name of an array to its content; a variable of run is
\* bound to the name of the array it refers to.

\* Mutant of np_copy: the variable is bound to the array itself.
np_alias(heap, ref, fresh) == [heap |-> heap, ref |-> ref]

\* x.copy() (and x.flatten()): a fresh array with the content of x.
np_copy(heap, ref, fresh) ==
  [heap |-> (fresh :> heap[ref]) @@ heap, ref |-> fresh]

\* x[image.mask] = 0: writes the array x is bound to.
setitem_mask(heap, ref, msk) ==
  [heap EXCEPT ![ref] = [k \in DOMAIN @ |-> IF msk[k] THEN 0 ELSE @[k]]]

\* x.sort(): sorts the array x is bound to in place.
np_sort(heap, ref) ==
  [heap EXCEPT ![ref] = SortSeq(@, LAMBDA a, b : a < b)]

\* The statements of the image loop: img, masked_image.  The result is the
\* heap with the image's own arrays and run's scratch arrays.
ImageHeap(image) ==
  LET h0 == [pixel_data |-> image.pixel_data, mask |-> image.mask]
      cp == np_copy(h0, "pixel_data", "masked_image")
  IN IF image.has_mask THEN setitem_mask(cp.heap, cp.ref, image.mask)
     ELSE h0

\* The statements of the object loop that bind or write arrays:
\* masked_labels, masked_outlines and the sorted ordered_image.
ObjectHeap(image, seg) ==
  LET in == Input(image.shape, image.pixel_data, image.has_mask,
                  image.mask, seg)
      h0 == [segmented |-> seg, mask |-> image.mask,
             outlines |-> outline(image.shape, seg)]
      c1 == np_copy(h0, "segmented", "masked_labels")
      h1 == setitem_mask(c1.heap, c1.ref, image.mask)
      c2 == np_copy(h1, "outlines", "masked_outlines")
      h2 == setitem_mask(c2.heap, c2.ref, image.mask)
      h3 == IF image.has_mask THEN h2 ELSE h0
      keys == [j \in 1..Len(img(in)) |->
                 labels(in)[j] * Unit + img(in)[j]]
      c4 == np_copy(("ordered_image" :> keys) @@ h3,
                    "ordered_image", "flattened")
  IN IF nobjects(in) > 1 THEN np_sort(c4.heap, c4.ref) ELSE h3

\* ------------------------------------------------------------ the machine
\* The image and the label matrix the workspace holds.
Current == Input(shape, pixel_data, has_mask, mask, segmented)

\* Label matrices are compacted: the positive labels used are exactly 1..N.
Compact(seg) ==
  \A l \in 1..MaxLabel :
    (\E k \in DOMAIN seg : seg[k] = l) =>
      \A m \in 1..l : \E k \in DOMAIN seg : seg[k] = m

AllTrue(n) == [k \in 1..n |-> TRUE]

\* The masks of n pixels with at most MaxMaskedOut pixels masked out.
Masks(n) ==
  {m \in [1..n -> BOOLEAN] :
     Cardinality({k \in 1..n : ~m[k]}) <= MaxMaskedOut}

\* The 3x3 example of the specification, in fixed point.
ExampleLabels == <<0, 0, 1, 0, 1, 1, 2, 2, 2>>

ExampleImage ==
  [k \in 1..9 |-> Unit * <<0, 0, 10, 0, 20, 30, 5, 5, 5>>[k]]

InitGenerated ==
  /\ shape \in Shapes
  /\ pixel_data \in [1..(shape[1] * shape[2]) -> 0..MaxIntensity]
  /\ segmented \in {s \in [1..(shape[1] * shape[2]) -> 0..MaxLabel] : Compact(s)}
  /\ has_mask \in BOOLEAN
  /\ mask \in IF has_mask THEN Masks(shape[1] * shape[2])
              ELSE {AllTrue(shape[1] * shape[2])}

InitExample ==
  /\ shape = <<3, 3>>
  /\ pixel_data = ExampleImage
  /\ segmented = ExampleLabels
  /\ has_mask = FALSE
  /\ mask = AllTrue(9)

\* cps.DO_NOT_USE
DO_NOT_USE == "Do not use"

\* The call record of a module that has not been called.
NoCall == [op |-> "none", args |-> <<>>]

\* The settings create_settings leaves: one image name and one object name,
\* each "None", each with a remove button bound to index 0.
create_settings ==
  /\ image_names = <<"None">>
  /\ image_names_remove_buttons = <<0>>
  /\ image_divider = DO_NOT_USE
  /\ object_names = <<"None">>
  /\ object_name_remove_buttons = <<0>>

\* The module outside a run: fresh settings and an empty workspace.
ModuleIdle ==
  /\ create_settings
  /\ image_set = <<>>
  /\ object_set = <<>>
  /\ store = <<>>
  /\ call = NoCall
  /\ module_pc = "idle"

\* GrayToColor's colours, and the module as create_settings leaves it.
Colors == {"red", "green", "blue", "cyan", "magenta", "yellow", "gray"}

SCHEME_RGB == "RGB"

SCHEME_CMYK == "CMYK"

SCHEME_STACK == "Stack"

LEAVE_THIS_BLACK == "Leave this black"

GrayToColorIdle ==
  /\ scheme_choice = SCHEME_RGB
  /\ color_image_names = [c \in Colors |-> LEAVE_THIS_BLACK]
  /\ adjustment_factors = [c \in Colors |-> 1]
  /\ stack_channels = <<"None">>

\* LoadText as create_settings leaves it, with no file read.
LoadTextIdle ==
  /\ csv_file = <<>>
  /\ wants_rows = FALSE
  /\ row_range = <<1, 100000>>
  /\ legacy_fields = <<>>

\* A Python list, None, and the record of a module that was not queried.
List(value) == [type |-> "list", value |-> value]

None == [type |-> "NoneType", value |-> <<>>]

NoReturn == [type |-> "nothing", value |-> <<>>]

QueryIdle == returned = NoReturn

\* The modules other than MeasureObjectIntensity, untouched.
OthersIdle == GrayToColorIdle /\ LoadTextIdle /\ QueryIdle

\* One pair outside its measurement.
PairIdle ==
  /\ shape = <<1, 1>>
  /\ pixel_data = <<0>>
  /\ has_mask = FALSE
  /\ mask = <<TRUE>>
  /\ segmented = <<0>>
  /\ measurements = <<>>
  /\ pc = "idle"

\* 3x3 images whose centre pixel is off the image border: the label matrices
\* with labels 0 and 1 and the images that are flat around the centre.
InitInterior ==
  /\ shape = <<3, 3>>
  /\ \E c, e \in 0..MaxIntensity :
       pixel_data = [k \in 1..9 |-> IF k = 5 THEN c ELSE e]
  /\ segmented \in [1..9 -> 0..1]
  /\ has_mask = FALSE
  /\ mask = AllTrue(9)

Init ==
  /\ InitGenerated \/ InitExample \/ InitInterior
  /\ measurements = <<>>
  /\ pc = "ready"
  /\ ModuleIdle
  /\ OthersIdle

\* MeasureObjectIntensity.run for the image and the object set.
run ==
  /\ pc = "ready"
  /\ pc' = Outcome(Current).pc
  /\ measurements' = Outcome(Current).measurements
  /\ pixel_data' = ImageHeap(Current).pixel_data
  /\ mask' = ObjectHeap(Current, segmented).mask
  /\ segmented' = ObjectHeap(Current, segmented).segmented
  /\ UNCHANGED <<shape, has_mask, moduleVars, otherVars>>

Next == run

Spec == Init /\ [][Next]_vars

\* ------------------------------------------------------------ a whole run
\* Largest number of image-name (object-name) settings of a generated module.
MaxNames == 2

INTENSITY == "Intensity"

\* The images and the objects a generated workspace provides.
ImageNameValues == {"DNA", "Actin"}

ObjectNameValues == {"Nuclei", "Cells"}

WorkspaceShape == <<2, 2>>

\* The masks of a workspace image: the first or the last pixel masked out.
WorkspaceMasks(hm) ==
  IF hm THEN {<<FALSE, TRUE, TRUE, TRUE>>, <<TRUE, TRUE, TRUE, FALSE>>}
  ELSE {AllTrue(4)}

\* A gradient or a flat image, with or without a mask.
WorkspaceImages ==
  UNION {{[shape |-> WorkspaceShape,
           pixel_data |->
             [k \in 1..4 |-> IF flat THEN 1 ELSE k % (MaxIntensity + 1)],
           has_mask |-> hm,
           mask |-> msk] : flat \in BOOLEAN, msk \in WorkspaceMasks(hm)} :
         hm \in BOOLEAN}

WorkspaceLabels ==
  {<<0, 0, 0, 0>>, <<0, 1, 1, 1>>, <<1, 1, 1, 1>>, <<1, 1, 2, 2>>,
   <<1, 1, 1, 2>>}

\* The lists of at most n distinct names of S.
NameLists(S, n) ==
  {q \in UNION {[1..m -> S] : m \in 0..n} :
     \A a, b \in DOMAIN q : a # b => q[a] # q[b]}

\* The index every remove button of a list of n settings is created with.
FreshButtons(n) == [i \in 1..n |-> i - 1]

InitWorkspace ==
  /\ image_names \in NameLists(ImageNameValues, MaxNames)
  /\ object_names \in NameLists(ObjectNameValues, MaxNames)
  /\ image_names_remove_buttons = FreshButtons(Len(image_names))
  /\ object_name_remove_buttons = FreshButtons(Len(object_names))
  /\ image_divider = DO_NOT_USE
  /\ call = NoCall
  /\ image_set \in [ImageNameValues -> WorkspaceImages]
  /\ object_set \in [ObjectNameValues -> WorkspaceLabels]
  /\ store = <<>>
  /\ module_pc = "ready"
  /\ PairIdle
  /\ OthersIdle

\* "%s_%s_%s"%(INTENSITY,feature_name,image_name.value)
measurement_name(feature_name, image_name) ==
  INTENSITY \o "_" \o feature_name \o "_" \o image_name

\* The fourteen add_measurement calls of one pair, in the order of the loop.
AddMeasurements(object_name, image_name, in) ==
  [f \in 1..Len(ALL_MEASUREMENTS) |->
     [object_name |-> object_name,
      feature_name |-> measurement_name(ALL_MEASUREMENTS[f], image_name),
      data |-> Measure(in)[ALL_MEASUREMENTS[f]]]]

\* The body of the object loop for object_names[o] and the ones after it;
\* w is the workspace so far, image the image the outer loop fetched.
RECURSIVE ObjectLoop(_, _, _, _)
ObjectLoop(w, image_name, image, o) ==
  IF o > Len(object_names) \/ w.pc # "ready" THEN w
  ELSE LET object_name == object_names[o]
           seg == w.object_set[object_name]
           in == Input(image.shape, image.pixel_data, image.has_mask,
                       image.mask, seg)
           heap == ObjectHeap(image, seg)
           after ==
             [w EXCEPT
                !.object_set[object_name] = heap.segmented,
                !.image_set[image_name].mask = heap.mask,
                !.store = IF IndexError(in) THEN @
                          ELSE @ \o AddMeasurements(object_name, image_name, in),
                !.pc = IF IndexError(in) THEN "IndexError" ELSE @]
       IN ObjectLoop(after, image_name,
                     [image EXCEPT !.mask = heap.mask], o + 1)

\* The body of the image loop for image_names[i] and the ones after it.
RECURSIVE ImageLoop(_, _)
ImageLoop(w, i) ==
  IF i > Len(image_names) \/ w.pc # "ready" THEN w
  ELSE LET image_name == image_names[i]
           image == w.image_set[image_name]
           heap == ImageHeap(image)
           after == [w EXCEPT !.image_set[image_name].pixel_data = heap.pixel_data,
                              !.image_set[image_name].mask = heap.mask]
       IN ImageLoop(ObjectLoop(after, image_name, after.image_set[image_name], 1),
                    i + 1)

\* MeasureObjectIntensity.run(workspace).
run_workspace ==
  /\ module_pc = "ready"
  /\ LET w == ImageLoop([image_set |-> image_set, object_set |-> object_set,
                         store |-> store, pc |-> "ready"], 1)
     IN /\ image_set' = w.image_set
        /\ object_set' = w.object_set
        /\ store' = w.store
        /\ module_pc' = IF w.pc = "ready" THEN "done" ELSE w.pc
  /\ call' = [op |-> "run", args |-> <<>>]
  /\ UNCHANGED <<settingVars, pairVars, otherVars>>

NextWorkspace == run_workspace

SpecWorkspace == InitWorkspace /\ [][NextWorkspace]_vars

\* ------------------------------------------------------------ the settings
\* Longest generated setting_values list.
MaxValues == 3

\* self.module_class(), and the name a Matlab pipeline gives the module.
MODULE_CLASS ==
  "cellprofiler.modules.measureobjectintensity.MeasureObjectIntensity"

MATLAB_MODULE_NAME == "MeasureObjectIntensity"

ModuleNames == {MODULE_CLASS, MATLAB_MODULE_NAME}

\* The values a generated setting_values list holds.
SettingValues == {"DNA", DO_NOT_USE}

SettingValueLists == UNION {[1..n -> SettingValues] : n \in 0..MaxValues}

\* del list[index], index counted from 0 and inside the list.
del(list, index) ==
  [j \in 1..(Len(list) - 1) |-> IF j <= index THEN list[j] ELSE list[j + 1]]

\* A list of name settings with its remove buttons.
Names(names, buttons) == [names |-> names, buttons |-> buttons]

\* The body of remove_cb and remove_image_cb on a list.
remove_at(l, index) ==
  Names(del(l.names, index), del(l.buttons, index))

\* The body of add_cb and add_image_cb on a list: a setting "None" and a
\* button bound to nitems.
add_to(l) ==
  LET nitems == Len(l.names)
  IN Names(Append(l.names, "None"), Append(l.buttons, nitems))

\* Mutant of resize: the loop that removes settings is left out.
RECURSIVE resize_growing_only(_, _)
resize_growing_only(l, count) ==
  IF Len(l.names) < count THEN resize_growing_only(add_to(l), count)
  ELSE l

\* The two while loops of set_setting_values on a list: remove the last
\* setting while there are more than count, add one while there are fewer.
RECURSIVE resize(_, _)
resize(l, count) ==
  IF Len(l.names) > count THEN resize(remove_at(l, Len(l.names) - 1), count)
  ELSE IF Len(l.names) < count THEN resize(add_to(l), count)
  ELSE l

\* The old Matlab-style list rewritten: the first value, a divider, and the
\* other values that are not "Do not use".
new_setting_values(setting_values) ==
  <<setting_values[1], DO_NOT_USE>>
    \o SelectSeq(Tail(setting_values), LAMBDA x : x # DO_NOT_USE)

\* i after `for i in range(len(setting_values))` with its break: the number
\* of values before the first DO_NOT_USE, or len - 1 when there is none.
image_count(setting_values) ==
  IF \E j \in DOMAIN setting_values : setting_values[j] = DO_NOT_USE
  THEN (CHOOSE j \in DOMAIN setting_values :
          /\ setting_values[j] = DO_NOT_USE
          /\ \A h \in 1..(j - 1) : setting_values[h] # DO_NOT_USE) - 1
  ELSE Len(setting_values) - 1

\* self.settings(): the image names, the divider, the object names.
settings == image_names \o <<image_divider>> \o object_names

\* The superclass's set_setting_values: the values are given, in order, to
\* the settings of self.settings(), as far as both lists go.
assign_values(all, values) ==
  [p \in 1..Len(all) |-> IF p <= Len(values) THEN values[p] ELSE all[p]]

\* What set_setting_values does to the settings, or the exception it raises.
SetSettingValues(setting_values, variable_revision_number, module_name) ==
  LET unchanged == [images |-> Names(image_names, image_names_remove_buttons),
                    objects |-> Names(object_names, object_name_remove_buttons),
                    divider |-> image_divider]
      matlab == module_name # MODULE_CLASS
      values == IF matlab THEN new_setting_values(setting_values)
                ELSE setting_values
      n == image_count(values)
      object_count == Len(values) - n - 1
      images == resize(unchanged.images, n)
      objects == resize(unchanged.objects, object_count)
      a == Len(images.names)
      b == Len(objects.names)
      all == assign_values(images.names \o <<image_divider>> \o objects.names,
                           values)
  IN IF variable_revision_number = 1
     THEN [pc |-> "NotImplementedError"] @@ unchanged
     ELSE IF matlab /\ setting_values = <<>>
     THEN [pc |-> "IndexError"] @@ unchanged
     ELSE IF values = <<>>
     THEN [pc |-> "UnboundLocalError"] @@ unchanged
     ELSE [pc |-> "done",
           images |-> Names(SubSeq(all, 1, a), images.buttons),
           divider |-> all[a + 1],
           objects |-> Names(SubSeq(all, a + 2, a + 1 + b), objects.buttons)]

set_setting_values(setting_values, variable_revision_number, module_name) ==
  \E out \in {SetSettingValues(setting_values, variable_revision_number,
                               module_name)} :
     /\ image_names' = out.images.names
     /\ image_names_remove_buttons' = out.images.buttons
     /\ image_divider' = out.divider
     /\ object_names' = out.objects.names
     /\ object_name_remove_buttons' = out.objects.buttons
     /\ module_pc' = out.pc
     /\ call' = [op |-> "set_setting_values",
                 args |-> <<variable_revision_number, module_name>>]
     /\ UNCHANGED <<workspaceVars, pairVars, otherVars>>

\* The "Add object" button.
add_cb ==
  /\ Len(object_names) < MaxNames
  /\ LET l == add_to(Names(object_names, object_name_remove_buttons))
     IN /\ object_names' = l.names
        /\ object_name_remove_buttons' = l.buttons
  /\ module_pc' = "done"
  /\ call' = [op |-> "add_cb", args |-> <<>>]
  /\ UNCHANGED <<image_names, image_names_remove_buttons, image_divider,
                 workspaceVars, pairVars, otherVars>>

\* The "Add image" button.
add_image_cb ==
  /\ Len(image_names) < MaxNames
  /\ LET l == add_to(Names(image_names, image_names_remove_buttons))
     IN /\ image_names' = l.names
        /\ image_names_remove_buttons' = l.buttons
  /\ module_pc' = "done"
  /\ call' = [op |-> "add_image_cb", args |-> <<>>]
  /\ UNCHANGED <<object_names, object_name_remove_buttons, image_divider,
                 workspaceVars, pairVars, otherVars>>

\* A "Remove" button of the object list: remove_cb(index) with the index
\* the button is bound to; del raises IndexError beyond the list.
remove_cb ==
  /\ \E b \in DOMAIN object_name_remove_buttons :
       LET index == object_name_remove_buttons[b]
           l == Names(object_names, object_name_remove_buttons)
       IN /\ call' = [op |-> "remove_cb", args |-> <<b, index>>]
          /\ IF index < Len(object_names)
             THEN /\ object_names' = remove_at(l, index).names
                  /\ object_name_remove_buttons' = remove_at(l, index).buttons
                  /\ module_pc' = "done"
             ELSE /\ UNCHANGED <<object_names, object_name_remove_buttons>>
                  /\ module_pc' = "IndexError"
  /\ UNCHANGED <<image_names, image_names_remove_buttons, image_divider,
                 workspaceVars, pairVars, otherVars>>

\* A "Remove" button of the image list: remove_image_cb(index).
remove_image_cb ==
  /\ \E b \in DOMAIN image_names_remove_buttons :
       LET index == image_names_remove_buttons[b]
           l == Names(image_names, image_names_remove_buttons)
       IN /\ call' = [op |-> "remove_image_cb", args |-> <<b, index>>]
          /\ IF index < Len(image_names)
             THEN /\ image_names' = remove_at(l, index).names
                  /\ image_names_remove_buttons' = remove_at(l, index).buttons
                  /\ module_pc' = "done"
             ELSE /\ UNCHANGED <<image_names, image_names_remove_buttons>>
                  /\ module_pc' = "IndexError"
  /\ UNCHANGED <<object_names, object_name_remove_buttons, image_divider,
                 workspaceVars, pairVars, otherVars>>

InitSettings == ModuleIdle /\ PairIdle /\ OthersIdle

NextSettings ==
  \/ add_cb
  \/ add_image_cb
  \/ remove_cb
  \/ remove_image_cb
  \/ \E setting_values \in SettingValueLists :
       \E variable_revision_number \in 1..2 :
         \E module_name \in ModuleNames :
           set_setting_values(setting_values, variable_revision_number,
                              module_name)

SpecSettings == InitSettings /\ [][NextSettings]_vars

\* ------------------------------------------------------------- GrayToColor
\* Largest adjustment factor of a generated module.
MaxFactor == 2

\* Largest number of stack channels of a generated module.
MaxChannels == 2

\* A grayscale image of one row and n columns with intensity p everywhere.
Gray(n, p) ==
  [shape |-> <<1, n>>, pixel_data |-> [k \in 1..n |-> p],
   has_mask |-> FALSE, mask |-> AllTrue(n)]

\* ColorSchemeSettings(image_name, adjustment_factor, red, green, blue)
ColorSchemeSettings(color, red_intensity, green_intensity, blue_intensity) ==
  [image_name |-> color_image_names[color],
   adjustment_factor |-> adjustment_factors[color],
   intensities |-> <<red_intensity, green_intensity, blue_intensity>>]

\* image_name.is_blank
is_blank(image_name) == image_name = LEAVE_THIS_BLACK

\* The color_scheme_settings property: the colours of the chosen scheme with
\* their red, green and blue intensities.
color_scheme_settings ==
  IF scheme_choice = SCHEME_RGB
  THEN << ColorSchemeSettings("red", <<1, 1>>, <<0, 1>>, <<0, 1>>),
          ColorSchemeSettings("green", <<0, 1>>, <<1, 1>>, <<0, 1>>),
          ColorSchemeSettings("blue", <<0, 1>>, <<0, 1>>, <<1, 1>>) >>
  ELSE IF scheme_choice = SCHEME_CMYK
  THEN << ColorSchemeSettings("cyan", <<0, 1>>, <<1, 2>>, <<1, 2>>),
          ColorSchemeSettings("magenta", <<1, 2>>, <<1, 2>>, <<0, 1>>),
          ColorSchemeSettings("yellow", <<1, 2>>, <<0, 1>>, <<1, 2>>),
          ColorSchemeSettings("gray", <<1, 3>>, <<1, 3>>, <<1, 3>>) >>
  ELSE <<>>

\* np.dstack([pixel_data]*3) * multiplier, the multiplier being
\* intensities * adjustment_factor.value: a (red, green, blue) per pixel.
Colored(pixels, setting) ==
  [k \in DOMAIN pixels |->
     [c \in 1..3 |->
        fmul(Intensity(pixels[k]),
             fmul(setting.intensities[c], Rat(setting.adjustment_factor, 1)))]]

\* rgb_pixel_data += more
AddColored(rgb, more) ==
  [k \in DOMAIN rgb |-> [c \in 1..3 |-> fadd(rgb[k][c], more[k][c])]]

\* The loop over color_scheme_settings from setting i on; g holds
\* parent_image_name ("None" while there is none), rgb_pixel_data and the
\* exception raised, if any.
RECURSIVE ColorLoop(_, _)
ColorLoop(g, i) ==
  IF i > Len(color_scheme_settings) \/ g.pc # "ready" THEN g
  ELSE LET setting == color_scheme_settings[i]
           image == image_set[setting.image_name]
       IN IF is_blank(setting.image_name) THEN ColorLoop(g, i + 1)
          ELSE IF g.parent_image_name = "None"
          THEN ColorLoop([g EXCEPT
                            !.parent_image_name = setting.image_name,
                            !.rgb_pixel_data = Colored(image.pixel_data, setting)],
                         i + 1)
          ELSE IF image_set[g.parent_image_name].shape # image.shape
          THEN [g EXCEPT !.pc = "ValueError"]
          ELSE ColorLoop([g EXCEPT
                            !.rgb_pixel_data =
                               AddColored(@, Colored(image.pixel_data, setting))],
                         i + 1)

\* The Stack branch: the channels are stacked as they are; reporting a
\* channel of another shape reads pd.pixel_data of an array.
StackChannels ==
  LET source_channels ==
        [i \in DOMAIN stack_channels |-> image_set[stack_channels[i]].pixel_data]
      shapes == [i \in DOMAIN stack_channels |-> image_set[stack_channels[i]].shape]
  IN IF \E i \in DOMAIN stack_channels : shapes[i] # shapes[1]
     THEN [pc |-> "AttributeError", parent_image_name |-> stack_channels[1],
           rgb_pixel_data |-> "None"]
     ELSE [pc |-> "ready", parent_image_name |-> stack_channels[1],
           rgb_pixel_data |->
             [k \in DOMAIN source_channels[1] |->
                [i \in DOMAIN stack_channels |->
                   Intensity(source_channels[i][k])]]]

\* cpi.Image(rgb_pixel_data, parent_image = parent_image)
RgbImage(g) ==
  IF g.parent_image_name = "None"
  THEN [shape |-> "None", pixel_data |-> g.rgb_pixel_data,
        has_mask |-> FALSE, mask |-> "None"]
  ELSE [image_set[g.parent_image_name] EXCEPT !.pixel_data = g.rgb_pixel_data]

\* self.rgb_image_name.value
rgb_image_name == "ColorImage"

\* GrayToColor.run(workspace)
gray_to_color_run ==
  /\ module_pc \in {"ready", "validated"}
  /\ \E g \in {IF scheme_choice # SCHEME_STACK
               THEN ColorLoop([pc |-> "ready", parent_image_name |-> "None",
                               rgb_pixel_data |-> "None"], 1)
               ELSE StackChannels} :
       /\ module_pc' = IF g.pc = "ready" THEN "done" ELSE g.pc
       /\ image_set' = IF g.pc = "ready"
                       THEN (rgb_image_name :> RgbImage(g)) @@ image_set
                       ELSE image_set
  /\ call' = [op |-> "GrayToColor.run", args |-> <<>>]
  /\ UNCHANGED <<settingVars, object_set, store, pairVars, loadTextVars,
                 grayToColorVars, queryVars>>

\* Mutant of all_blank: any([...]) in place of all([...]).
any_blank(scheme_settings) ==
  \E i \in DOMAIN scheme_settings : is_blank(scheme_settings[i].image_name)

\* all([color_scheme_setting.image_name.is_blank for ...])
all_blank(scheme_settings) ==
  \A i \in DOMAIN scheme_settings : is_blank(scheme_settings[i].image_name)

\* GrayToColor.validate_module(pipeline)
validate_module ==
  /\ module_pc = "ready"
  /\ module_pc' =
       IF scheme_choice # SCHEME_STACK /\ all_blank(color_scheme_settings)
       THEN "ValidationError" ELSE "validated"
  /\ call' = [op |-> "validate_module", args |-> <<>>]
  /\ UNCHANGED <<settingVars, workspaceVars, pairVars, otherVars>>

\* The colours of a scheme.
SchemeColors(scheme) ==
  IF scheme = SCHEME_RGB THEN {"red", "green", "blue"}
  ELSE IF scheme = SCHEME_CMYK THEN {"cyan", "magenta", "yellow", "gray"}
  ELSE {}

\* Modules whose settings outside the chosen scheme are the defaults, and an
\* image set with two grayscale images.
InitGrayToColor ==
  /\ scheme_choice \in {SCHEME_RGB, SCHEME_CMYK, SCHEME_STACK}
  /\ color_image_names \in
       {f \in [Colors -> {LEAVE_THIS_BLACK, "DNA", "Actin"}] :
          \A c \in Colors \ SchemeColors(scheme_choice) :
            f[c] = LEAVE_THIS_BLACK}
  /\ adjustment_factors \in
       {f \in [Colors -> 1..MaxFactor] :
          \A c \in Colors : is_blank(color_image_names[c]) => f[c] = 1}
  /\ stack_channels \in
       IF scheme_choice = SCHEME_STACK
       THEN UNION {[1..n -> {"DNA", "Actin"}] : n \in 1..MaxChannels}
       ELSE {<<"None">>}
  /\ \E p \in 1..MaxIntensity : \E n \in 1..2 :
       image_set = ("DNA" :> Gray(1, p)) @@ ("Actin" :> Gray(n, 1))
  /\ object_set = <<>>
  /\ store = <<>>
  /\ call = NoCall
  /\ module_pc = "ready"
  /\ create_settings
  /\ PairIdle
  /\ LoadTextIdle
  /\ QueryIdle

NextGrayToColor == validate_module \/ gray_to_color_run

SpecGrayToColor == InitGrayToColor /\ [][NextGrayToColor]_vars

\* ----------------------------------------------------------------- LoadText
\* Largest number of data rows of a generated CSV file.
MaxRows == 4

\* The header of the generated files: one column of numbers.
header == <<"Value">>

\* The data row numbered r: its number, and perhaps a cell too many.
Row1(r, extra) == IF extra THEN <<r, r>> ELSE <<r>>

\* The generated files: data rows 1..n, numbered from 1 after the header.
CsvFiles ==
  UNION {{[r \in 1..n |-> Row1(r, extra[r])] : extra \in [1..n -> BOOLEAN]} :
         n \in 0..MaxRows}

\* The row ranges first <= last up to one row past the longest file.
RowRanges ==
  {rr \in (1..(MaxRows + 1)) \X (1..(MaxRows + 1)) : rr[1] <= rr[2]}

\* `for row in reader:` from data row r on, with the counter i: a row of
\* the wrong length raises, the row is kept, and the loop breaks when
\* i == self.row_range.max.
RECURSIVE ReadRows(_, _, _)
ReadRows(r, i, rows) ==
  IF r > Len(csv_file) THEN [pc |-> "ready", rows |-> rows]
  ELSE IF Len(csv_file[r]) # Len(header) THEN [pc |-> "ValueError", rows |-> rows]
  ELSE IF i = row_range[2]
  THEN [pc |-> "ready", rows |-> Append(rows, csv_file[r])]
  ELSE ReadRows(r + 1, i + 1, Append(rows, csv_file[r]))

\* The rows prepare_run reads, or the exception reading raises: skipping
\* past the end stops the reader, and with nothing to skip `i += 1` finds i
\* unbound.
LoadRows ==
  LET n_to_skip == row_range[1] - 1
  IN IF ~wants_rows THEN [pc |-> "ready", rows |-> csv_file]
     ELSE IF n_to_skip > Len(csv_file) THEN [pc |-> "StopIteration", rows |-> <<>>]
     ELSE IF n_to_skip = 0 THEN [pc |-> "UnboundLocalError", rows |-> <<>>]
     ELSE ReadRows(n_to_skip + 1, n_to_skip, <<>>)

\* dictionary[header[i]] = best_cast([row[i] for row in rows]) for the one
\* column of the header.
Dictionary(rows) == (header[1] :> [j \in DOMAIN rows |-> rows[j][1]])

\* LoadText.prepare_run(pipeline, image_set_list, frame)
prepare_run ==
  /\ module_pc = "ready"
  /\ \E loaded \in {LoadRows} :
       /\ module_pc' = IF loaded.pc = "ready" THEN "done" ELSE loaded.pc
       /\ legacy_fields' = IF loaded.pc = "ready" THEN Dictionary(loaded.rows)
                           ELSE legacy_fields
  /\ call' = [op |-> "prepare_run", args |-> <<>>]
  /\ UNCHANGED <<csv_file, wants_rows, row_range, grayToColorVars,
                 settingVars, workspaceVars, pairVars, queryVars>>

InitLoadText ==
  /\ csv_file \in CsvFiles
  /\ wants_rows \in BOOLEAN
  /\ row_range \in RowRanges \cup {<<1, 100000>>}
  /\ legacy_fields = <<>>
  /\ module_pc = "ready"
  /\ call = NoCall
  /\ create_settings
  /\ image_set = <<>>
  /\ object_set = <<>>
  /\ store = <<>>
  /\ PairIdle
  /\ GrayToColorIdle
  /\ QueryIdle

NextLoadText == prepare_run

SpecLoadText == InitLoadText /\ [][NextLoadText]_vars

\* ------------------------------------------------- the measurement queries
\* The object names, categories and measurement names a query is made with.
QueryObjectNames == ObjectNameValues \cup {"Image"}

QueryCategories == {INTENSITY, "AreaShape"}

QueryMeasurements == {MEAN_INTENSITY, "Area"}

\* `for object_name_variable in self.object_names:
\*      if object_name_variable == object_name:`  a setting equals a string
\* when its value does.
is_object_name(object_name) ==
  \E j \in DOMAIN object_names : object_names[j] = object_name

\* What get_categories returns.
GetCategories(object_name) ==
  IF is_object_name(object_name) THEN List(<<INTENSITY>>) ELSE List(<<>>)

\* What get_measurements returns: no return statement follows its loop, so
\* the function ends and the call yields None.
GetMeasurements(object_name, category) ==
  IF category # INTENSITY THEN List(<<>>)
  ELSE IF is_object_name(object_name) THEN List(ALL_MEASUREMENTS)
  ELSE None

\* What get_measurement_images returns.
GetMeasurementImages(object_name, category, measurement) ==
  IF category # INTENSITY THEN List(<<>>)
  ELSE IF \A j \in DOMAIN ALL_MEASUREMENTS : ALL_MEASUREMENTS[j] # measurement
  THEN List(<<>>)
  ELSE IF is_object_name(object_name) THEN List(image_names)
  ELSE List(<<>>)

get_categories(object_name) ==
  /\ returned' = GetCategories(object_name)
  /\ call' = [op |-> "get_categories", args |-> <<object_name>>]
  /\ module_pc' = "done"
  /\ UNCHANGED <<settingVars, workspaceVars, pairVars, grayToColorVars,
                 loadTextVars>>

get_measurements(object_name, category) ==
  /\ returned' = GetMeasurements(object_name, category)
  /\ call' = [op |-> "get_measurements", args |-> <<object_name, category>>]
  /\ module_pc' = "done"
  /\ UNCHANGED <<settingVars, workspaceVars, pairVars, grayToColorVars,
                 loadTextVars>>

get_measurement_images(object_name, category, measurement) ==
  /\ returned' = GetMeasurementImages(object_name, category, measurement)
  /\ call' = [op |-> "get_measurement_images",
              args |-> <<object_name, category, measurement>>]
  /\ module_pc' = "done"
  /\ UNCHANGED <<settingVars, workspaceVars, pairVars, grayToColorVars,
                 loadTextVars>>

\* A module whose image and object names were filled in, before a query.
InitQueries ==
  /\ image_names \in NameLists(ImageNameValues, MaxNames)
  /\ object_names \in NameLists(ObjectNameValues, MaxNames)
  /\ image_names_remove_buttons = FreshButtons(Len(image_names))
  /\ object_name_remove_buttons = FreshButtons(Len(object_names))
  /\ image_divider = DO_NOT_USE
  /\ call = NoCall
  /\ image_set = <<>>
  /\ object_set = <<>>
  /\ store = <<>>
  /\ module_pc = "ready"
  /\ PairIdle
  /\ OthersIdle

NextQueries ==
  \E object_name \in QueryObjectNames :
    \/ get_categories(object_name)
    \/ \E category \in QueryCategories :
         \/ get_measurements(object_name, category)
         \/ \E measurement \in QueryMeasurements :
              get_measurement_images(object_name, category, measurement)

SpecQueries == InitQueries /\ [][NextQueries]_vars

\* ================================================================ claims
\* What the claims speak of, stated from the inputs alone.

\* The fourteen feature names.
Features == {ALL_MEASUREMENTS[i] : i \in 1..Len(ALL_MEASUREMENTS)}

\* N: the number of regions of the label matrix (its positive labels).
RegionCount == Cardinality({segmented[k] : k \in DOMAIN segmented} \ {0})

\* The valid pixels of region r: labelled r and not masked out.
RegionPixels(r) ==
  {k \in DOMAIN segmented : segmented[k] = r /\ (has_mask => mask[k])}

\* The intensities of region r in ascending order.
RegionSorted(r) ==
  LET S == RegionPixels(r)
      order == CHOOSE f \in [1..Cardinality(S) -> S] :
                 /\ \A a, b \in 1..Cardinality(S) : a # b => f[a] # f[b]
                 /\ \A a, b \in 1..Cardinality(S) :
                      a < b => \/ pixel_data[f[a]] < pixel_data[f[b]]
                               \/ /\ pixel_data[f[a]] = pixel_data[f[b]]
                                  /\ f[a] < f[b]
  IN [a \in 1..Cardinality(S) |-> pixel_data[order[a]]]

\* The sum of the intensities of region r.
RegionSum(r) == Rat(SumOver(pixel_data, RegionPixels(r)), Unit)

\* C1: one measurement produces the fourteen sequences, each of length N,
\* position r holding the value of region r (here: its integrated
\* intensity, the sum over the region's valid pixels).
C1_FourteenSequencesOfLengthN ==
  pc # "ready" =>
    /\ pc = "done"
    /\ DOMAIN measurements = Features
    /\ \A f \in Features : Len(measurements[f]) = RegionCount
    /\ \A r \in 1..RegionCount :
         measurements[INTEGRATED_INTENSITY][r] = RegionSum(r)

\* C2: the 3x3 example yields sum 60, mean 20, min 10, max 30, median 20
\* for region 1 and sum 15, mean 5, min 5, max 5, median 5, mass
\* displacement 0 for region 2.
C2_EndToEndExample ==
  ( /\ pc # "ready"
    /\ shape = <<3, 3>>
    /\ pixel_data = ExampleImage
    /\ segmented = ExampleLabels
    /\ ~has_mask ) =>
    /\ pc = "done"
    /\ measurements[INTEGRATED_INTENSITY] = << <<60, 1>>, <<15, 1>> >>
    /\ measurements[MEAN_INTENSITY] = << <<20, 1>>, <<5, 1>> >>
    /\ measurements[MIN_INTENSITY] = << <<10, 1>>, <<5, 1>> >>
    /\ measurements[MAX_INTENSITY] = << <<30, 1>>, <<5, 1>> >>
    /\ measurements[MEDIAN_INTENSITY] = << <<20, 1>>, <<5, 1>> >>
    /\ measurements[MASS_DISPLACEMENT][2] = sqrt(<<0, 1>>)

\* C3 as stated: with a single region the mass-displacement and quantile
\* sequences have length 0 while sum, mean, min and max have length 1.
C3_SingleRegionQuantilesEmpty ==
  (pc = "done" /\ RegionCount = 1) =>
    /\ Len(measurements[MASS_DISPLACEMENT]) = 0
    /\ Len(measurements[LOWER_QUARTILE_INTENSITY]) = 0
    /\ Len(measurements[MEDIAN_INTENSITY]) = 0
    /\ Len(measurements[UPPER_QUARTILE_INTENSITY]) = 0
    /\ Len(measurements[INTEGRATED_INTENSITY]) = 1
    /\ Len(measurements[MEAN_INTENSITY]) = 1
    /\ Len(measurements[MIN_INTENSITY]) = 1
    /\ Len(measurements[MAX_INTENSITY]) = 1

\* C3 amended: with a single region every sequence a measurement produces,
\* mass displacement and the three quantiles included, has length 1; the
\* sequences are empty only when the label matrix has no region.
C3_SingleRegionLengths ==
  pc = "done" =>
    /\ RegionCount = 1 => \A f \in Features : Len(measurements[f]) = 1
    /\ RegionCount = 0 => \A f \in Features : Len(measurements[f]) = 0

C3_Witness ==
  /\ pc = "done"
  /\ RegionCount = 1
  /\ Len(measurements[MASS_DISPLACEMENT]) = 1
  /\ Len(measurements[MEDIAN_INTENSITY]) = 1

\* C4: measuring with no mask and measuring with a mask that is true at
\* every pixel produce the same fourteen sequences.
C4_AbsentMaskIsAllTrueMask ==
  (pc = "done" /\ ~has_mask) =>
    Outcome(Input(shape, pixel_data, TRUE, AllTrue(NPixels(Current)),
                  segmented))
      = [pc |-> "done", measurements |-> measurements]

\* The images that differ from pixel_data only where the mask is false.
MaskedOutVariants ==
  {alt \in [DOMAIN pixel_data -> 0..MaxIntensity] :
     \A k \in DOMAIN pixel_data : mask[k] => alt[k] = pixel_data[k]}

\* C5: only pixels where the mask is true are included: images that differ
\* only where the mask is false give the same fourteen sequences.
C5_MaskedOutPixelsAreIgnored ==
  (pc = "done" /\ has_mask) =>
    \A alt \in MaskedOutVariants :
      Outcome(Input(shape, alt, has_mask, mask, segmented))
        = [pc |-> "done", measurements |-> measurements]

\* C6: for every region with area > 0 the reported quantiles satisfy
\* lower_quartile <= median <= upper_quartile.
C6_QuantileOrdering ==
  pc = "done" =>
    \A r \in 1..RegionCount :
      RegionPixels(r) # {} =>
        /\ fle(measurements[LOWER_QUARTILE_INTENSITY][r],
               measurements[MEDIAN_INTENSITY][r])
        /\ fle(measurements[MEDIAN_INTENSITY][r],
               measurements[UPPER_QUARTILE_INTENSITY][r])

\* A measured region whose three quantiles are distinct.
C6_Witness ==
  /\ pc = "done"
  /\ \E r \in 1..RegionCount :
       /\ RegionPixels(r) # {}
       /\ measurements[LOWER_QUARTILE_INTENSITY][r]
            # measurements[MEDIAN_INTENSITY][r]
       /\ measurements[MEDIAN_INTENSITY][r]
            # measurements[UPPER_QUARTILE_INTENSITY][r]

\* C7: for every region min <= mean <= max, and each of the three quantiles
\* lies in [min, max].
C7_MinMeanMaxBounds ==
  pc = "done" =>
    \A r \in 1..RegionCount :
      LET lo == measurements[MIN_INTENSITY][r]
          hi == measurements[MAX_INTENSITY][r]
      IN /\ fle(lo, measurements[MEAN_INTENSITY][r])
         /\ fle(measurements[MEAN_INTENSITY][r], hi)
         /\ \A f \in {LOWER_QUARTILE_INTENSITY, MEDIAN_INTENSITY,
                      UPPER_QUARTILE_INTENSITY} :
              fle(lo, measurements[f][r]) /\ fle(measurements[f][r], hi)

\* C8: if the intensity image has the same value at every pixel, the mass
\* displacement of every region is 0, with or without a mask.  Stated for
\* the constants other than 0: under the constant 0 every region has
\* integrated intensity 0, the undefined centroid of C10.
C8_UniformIntensityNoDisplacement ==
  ( /\ pc = "done"
    /\ pixel_data[1] # 0
    /\ \A k \in DOMAIN pixel_data : pixel_data[k] = pixel_data[1] )
    => \A r \in 1..RegionCount :
         measurements[MASS_DISPLACEMENT][r] = sqrt(<<0, 1>>)

\* C9: with intensities in [0,1) the median of a region of odd area 2k+1
\* is the (k+1)-th smallest intensity of the region, and the lower and
\* upper quartiles are intensities of the region's own pixels.
C9_MedianIsRegionMedian ==
  (pc = "done" /\ \A k \in DOMAIN pixel_data : pixel_data[k] < Unit) =>
    \A r \in 1..RegionCount :
      LET S == RegionPixels(r)
          n == Cardinality(S)
          own == {Intensity(pixel_data[k]) : k \in S}
      IN n > 0 =>
           /\ n % 2 = 1 =>
                measurements[MEDIAN_INTENSITY][r]
                  = Intensity(RegionSorted(r)[(n + 1) \div 2])
           /\ measurements[LOWER_QUARTILE_INTENSITY][r] \in own
           /\ measurements[UPPER_QUARTILE_INTENSITY][r] \in own

\* C10: when a region's integrated intensity is 0 the measurement does not
\* raise: the fourteen sequences are produced, that region's mass
\* displacement is NaN and no other region's is.
C10_ZeroIntegratedIntensityIsNaN ==
  (pc # "ready" /\ \E r \in 1..RegionCount : RegionSum(r) = <<0, 1>>) =>
    /\ pc = "done"
    /\ DOMAIN measurements = Features
    /\ \A r \in 1..RegionCount :
         RegionSum(r) = <<0, 1>>
           <=> IsNaN(measurements[MASS_DISPLACEMENT][r].radicand)

\* C11: when a region has no valid pixel (or the label matrix has no region
\* at all) the measurement completes without raising, and the quantiles of
\* a region without valid pixels are not read from beyond the sorted array.
C11_DegenerateRegionNeverAnError ==
  ( /\ pc # "ready"
    /\ \/ RegionCount = 0
       \/ \E r \in 1..RegionCount : RegionPixels(r) = {} )
    => pc = "done"

\* The number of valid pixels: those the mask does not exclude.
ValidPixels == {k \in DOMAIN segmented : has_mask => mask[k]}

\* C14: for every region the integrated intensity equals the mean intensity
\* times the region's area, exactly.
C14_IntegratedIsMeanTimesArea ==
  pc = "done" =>
    \A r \in 1..RegionCount :
      measurements[INTEGRATED_INTENSITY][r]
        = fmul(measurements[MEAN_INTENSITY][r],
               Rat(Cardinality(RegionPixels(r)), 1))

\* A measured region of several pixels whose mean is a proper fraction of
\* its sum.
C14_Witness ==
  /\ pc = "done"
  /\ \E r \in 1..RegionCount :
       /\ Cardinality(RegionPixels(r)) >= 3
       /\ measurements[INTEGRATED_INTENSITY][r] # <<0, 1>>
       /\ measurements[MEAN_INTENSITY][r]
            # measurements[INTEGRATED_INTENSITY][r]

C12_FourteenPerPair ==
  module_pc # "ready" =>
    /\ Len(store) = 14 * Len(image_names) * Len(object_names)
    /\ \A i \in DOMAIN image_names, o \in DOMAIN object_names, f \in Features :
         Cardinality({n \in DOMAIN store :
                        /\ store[n].object_name = object_names[o]
                        /\ store[n].feature_name
                             = "Intensity_" \o f \o "_" \o image_names[i]}) = 1

\* C13: a run leaves its inputs unchanged: the pixel data and the mask of
\* every image and the label matrix of every object set are after the run
\* what they were before it.
C13_InputsUnchanged ==
  [][run_workspace => image_set' = image_set /\ object_set' = object_set]_vars

\* A finished run over two images, one of them masked, and two object sets.
C13_Witness ==
  /\ module_pc = "done"
  /\ Len(image_names) = 2 /\ Len(object_names) = 2
  /\ Len(store) = 56
  /\ image_set[image_names[1]].has_mask
  /\ ~image_set[image_names[2]].has_mask
  /\ \E k \in 1..4 : /\ image_set[image_names[1]].mask[k]
                     /\ image_set[image_names[1]].pixel_data[k] # 0
                     /\ object_set[object_names[1]][k] # 0

\* The pixels labelled r, masked out or not.
LabelPixels(r) == {k \in DOMAIN segmented : segmented[k] = r}

\* Every pixel of region r has a neighbour with another label or background.
AllBoundary(r) ==
  \A k \in LabelPixels(r) :
    \E n \in Neighbours(shape, k) : segmented[n] # r

\* C16: for a region in which every pixel is a boundary pixel the five edge
\* statistics equal the five whole-region statistics; and the outline pixels
\* of any region r are pixels of region r.
C16_EdgeEqualsWholeOnBoundary ==
  pc = "done" =>
    \A r \in 1..RegionCount :
      /\ AllBoundary(r) =>
           /\ measurements[INTEGRATED_INTENSITY_EDGE][r]
                = measurements[INTEGRATED_INTENSITY][r]
           /\ measurements[MEAN_INTENSITY_EDGE][r]
                = measurements[MEAN_INTENSITY][r]
           /\ measurements[STD_INTENSITY_EDGE][r]
                = measurements[STD_INTENSITY][r]
           /\ measurements[MIN_INTENSITY_EDGE][r]
                = measurements[MIN_INTENSITY][r]
           /\ measurements[MAX_INTENSITY_EDGE][r]
                = measurements[MAX_INTENSITY][r]
      /\ {k \in DOMAIN segmented : outline(shape, segmented)[k] = r}
           \subseteq LabelPixels(r)

\* A measured 3x3 image with a region that holds the centre pixel, every
\* pixel of it on its boundary, whose intensities are not all the same.
C16_Witness ==
  /\ pc = "done"
  /\ shape = <<3, 3>>
  /\ \E r \in 1..RegionCount :
       /\ 5 \in LabelPixels(r)
       /\ AllBoundary(r)
       /\ measurements[STD_INTENSITY_EDGE][r] # sqrt(<<0, 1>>)
       /\ measurements[STD_INTENSITY_EDGE][r] = measurements[STD_INTENSITY][r]

\* The value list holds a DO_NOT_USE divider.
HasDivider(v) == \E j \in DOMAIN v : v[j] = DO_NOT_USE

\* k: the number of values before the first DO_NOT_USE divider of v.
FirstDivider(v) ==
  Cardinality({j \in DOMAIN v : \A h \in 1..j : v[h] # DO_NOT_USE})

\* The counts of C20 on what set_setting_values leaves, `out`, for the value
\* list v.
CountsFollowDivider(out, v) ==
  /\ out.pc = "done"
  /\ Len(out.images.names) = FirstDivider(v)
  /\ Len(out.objects.names) = Len(v) - FirstDivider(v) - 1
  /\ Len(out.images.buttons) = Len(out.images.names)
  /\ Len(out.objects.buttons) = Len(out.objects.names)
  /\ Len(out.images.names \o <<out.divider>> \o out.objects.names) = Len(v)

FilledIn == {c \in Colors : color_image_names[c] # LEAVE_THIS_BLACK}

\* The (red, green, blue) pixels of the image GrayToColor.run added.
ColorImage == image_set["ColorImage"].pixel_data

\* C17: in the CMYK scheme the cyan image adds equally to green and blue and
\* nothing to red, the magenta image equally to red and blue and nothing to
\* green, the yellow image equally to red and green and nothing to blue.
C17_CmykContributions ==
  ( /\ call.op = "GrayToColor.run"
    /\ module_pc = "done"
    /\ scheme_choice = "CMYK"
    /\ \E c \in {"cyan", "magenta", "yellow"} : FilledIn = {c} ) =>
    \A k \in DOMAIN ColorImage :
      LET red == ColorImage[k][1]
          green == ColorImage[k][2]
          blue == ColorImage[k][3]
      IN /\ FilledIn = {"cyan"} =>
              red = <<0, 1>> /\ green = blue /\ green # <<0, 1>>
         /\ FilledIn = {"magenta"} =>
              green = <<0, 1>> /\ red = blue /\ red # <<0, 1>>
         /\ FilledIn = {"yellow"} =>
              blue = <<0, 1>> /\ red = green /\ red # <<0, 1>>

\* C19: validate_module raises ValidationError exactly when the scheme is
\* RGB or CMYK and every image name of the chosen scheme is blank, and
\* raises nothing otherwise.
C19_ValidationErrorIffAllBlank ==
  call.op = "validate_module" =>
    /\ module_pc \in {"ValidationError", "validated"}
    /\ module_pc = "ValidationError"
         <=> /\ scheme_choice \in {"RGB", "CMYK"}
             /\ \A c \in (IF scheme_choice = "RGB"
                          THEN {"red", "green", "blue"}
                          ELSE {"cyan", "magenta", "yellow", "gray"}) :
                  color_image_names[c] = "Leave this black"

\* A CMYK module with every image name blank, refused.
C19_Witness ==
  /\ call.op = "validate_module"
  /\ module_pc = "ValidationError"
  /\ scheme_choice = "CMYK"
  /\ FilledIn = {}

\* C18: with a row range (first, last), 1 <= first <= last, prepare_run
\* loads exactly the data rows first..last of a well-formed file that has
\* them, the end row included and no row after it.
C18_RowRangeLoadsFirstToLast ==
  ( /\ call.op = "prepare_run"
    /\ wants_rows
    /\ row_range[1] <= row_range[2]
    /\ row_range[2] <= Len(csv_file)
    /\ \A r \in DOMAIN csv_file : Len(csv_file[r]) = 1 ) =>
    /\ module_pc = "done"
    /\ legacy_fields["Value"]
         = [j \in 1..(row_range[2] - row_range[1] + 1) |->
              row_range[1] + j - 1]

\* The number of valid pixels whose label is lower than l: the place of the
\* first entry of label l in the sorted array.
BlockStart(l) == Cardinality({k \in ValidPixels : segmented[k] < l})

\* C21: for compact labels and intensities in [0,1), the sorted composite
\* keys label + intensity are grouped by ascending label, the background
\* first, and ascend by intensity within each label; an entry of a label's
\* group minus the label is the intensity of a pixel of that label.
C21_SortGroupsByLabelThenIntensity ==
  ( /\ pc # "ready"
    /\ nobjects(Current) > 1
    /\ \A k \in ValidPixels : pixel_data[k] < Unit ) =>
    LET oi == ordered_image(Current)
    IN /\ DOMAIN oi = 0..(Cardinality(ValidPixels) - 1)
       /\ \A l \in 0..RegionCount :
            LET block == {BlockStart(l) + a - 1 :
                            a \in 1..Cardinality(RegionPixels(l))}
            IN /\ \A i \in block : oi[i] - l * Unit \in 0..(Unit - 1)
               /\ \A i, j \in block : i < j => oi[i] <= oi[j]
               /\ \A p \in 0..(Unit - 1) :
                    Cardinality({i \in block : oi[i] - l * Unit = p})
                      = Cardinality({k \in RegionPixels(l) :
                                       pixel_data[k] = p})

\* A label matrix with two regions where a pixel of region 2 comes before a
\* pixel of region 1 and, in one region, a brighter pixel before a darker.
C21_Witness ==
  /\ pc # "ready"
  /\ RegionCount = 2
  /\ \A k \in ValidPixels : pixel_data[k] < Unit
  /\ \E j, k \in ValidPixels :
       j < k /\ segmented[j] = 2 /\ segmented[k] = 1
  /\ \E j, k \in ValidPixels :
       j < k /\ segmented[j] = segmented[k] /\ pixel_data[j] > pixel_data[k]

\* C22: for every region r with area > 0 the three quantile indices computed
\* for r are indices of the sorted array inside r's own block, from the
\* number of valid pixels with a label below r to that plus area[r] - 1.
C22_QuantileIndicesInOwnBlock ==
  (pc # "ready" /\ nobjects(Current) > 1) =>
    \A r \in 1..RegionCount :
      LET area == Cardinality(RegionPixels(r))
      IN area > 0 =>
           \A idx \in {indices_25(Current)[r], indices_50(Current)[r],
                       indices_75(Current)[r]} :
             /\ idx \in DOMAIN ordered_image(Current)
             /\ BlockStart(r) <= idx
             /\ idx <= BlockStart(r) + area - 1

\* C23: the remove button shown at position i (the i-th of its list, counted
\* from 0) removes the entry at position i of its name list and itself: the
\* index it hands to remove_cb or remove_image_cb is i, and the removal does
\* not fail with an index out of range.
C23_RemoveButtonRemovesItsOwnEntry ==
  call.op \in {"remove_cb", "remove_image_cb"} =>
    LET i == call.args[1] - 1
        index == call.args[2]
    IN /\ module_pc = "done"
       /\ index = i

\* C24: get_measurements returns a list for every object name and category:
\* the fourteen feature names when the category is Intensity and the object
\* name is one of the module's object names, the empty list otherwise; it
\* never returns None.
C24_GetMeasurementsReturnsAList ==
  call.op = "get_measurements" =>
    LET object_name == call.args[1]
        category == call.args[2]
    IN /\ returned.type = "list"
       /\ returned.value
            = IF category = INTENSITY
                 /\ \E j \in DOMAIN object_names : object_names[j] = object_name
              THEN ALL_MEASUREMENTS
              ELSE <<>>

\* The names of the images GrayToColor.run reads: the filled-in image names
\* of the chosen scheme, or the stack's channels.
InputImageNames ==
  IF scheme_choice = SCHEME_STACK
  THEN {stack_channels[i] : i \in DOMAIN stack_channels}
  ELSE {color_image_names[c] : c \in SchemeColors(scheme_choice)}
         \ {LEAVE_THIS_BLACK}

\* C25: when GrayToColor.run is given input images of different shapes it
\* raises ValueError and adds no output image to the image set, in the RGB
\* and CMYK schemes and in the Stack scheme alike.
C25_ShapeMismatchRaisesValueError ==
  ( /\ call.op = "GrayToColor.run"
    /\ \E a, b \in InputImageNames : image_set[a].shape # image_set[b].shape )
    => /\ module_pc = "ValueError"
       /\ rgb_image_name \notin DOMAIN image_set

====
